---- MODULE Spec2Model ----
(***************************************************************************)
(* A model of the plant catalog repository:                                *)
(*   - src/generate_images.py : the image generation pipeline (main,       *)
(*     process_plant, poll_task_status, download_image);                    *)
(*   - src/backend/main.py    : the sort-key parsers and the two catalog    *)
(*     query handlers (get_filters, get_plants).                            *)
(* Strings are sequences of one-character strings, so that strip(),        *)
(* lower(), substring search and the regular expressions of the source     *)
(* are computed character by character.                                    *)
(***************************************************************************)
EXTENDS Integers, Sequences, FiniteSets, TLC

\* ------------------------------------------------------------------------
\* Bounds of the model
\* ------------------------------------------------------------------------
\* number of rows of the catalog CSV read by the pipeline
MaxRows == 2
\* largest value of --start and of --limit
MaxArg == 2
\* longest attribute string drawn over KeyAlphabet
MaxLen == 4
\* rows of the catalog the query service loads
MaxPlants == 2
\* filter categories selected in one query
MaxFilters == 2

\* ------------------------------------------------------------------------
\* Program constants of src/generate_images.py
\* ------------------------------------------------------------------------
POLL_INTERVAL == 5
MAX_POLL_TIME == 600
\* time.sleep(2) after an error, time.sleep(1) after a success
ERROR_SLEEP == 2
SUCCESS_SLEEP == 1

VARIABLES
    \* --- pipeline (generate_images.py) ---
    rows,           \* list(csv.DictReader(f)): the raw "Image Name"/"Image Prompt" cells
    start,          \* args.start
    limit,          \* args.limit: [given |-> FALSE] is None
    dry_run,        \* args.dry_run
    files,          \* the output directory: file name -> absent / old / partial / full
    i,              \* the index of enumerate(rows) in main
    pc,             \* position of main / process_plant: loop, poll, download, done, idle
    success_count, error_count, skip_count,
    now,            \* time.time() - start_time of the task being polled
    elapsed,        \* the local `elapsed` of poll_task_status (read at the top of a poll)
    task,           \* per row: how the row's task ended (the log line it produced)
    calls,          \* per row: the network calls made for it
    pause,          \* per row: seconds main slept after process_plant returned
    \* --- sort keys (backend/main.py) ---
    val,            \* the attribute string handed to a sort-key function
    key,            \* what the function did: [fn, ok, value]; ok = FALSE is a raised exception
    \* --- catalog query service (backend/main.py) ---
    df_plants,      \* the module global: [kind, rows], kind "list" is the [] of a failed load
    request,        \* the parameters of the get_plants call being answered
    response        \* what the handler did: [op, status, error, body]

pipeVars == <<rows, start, limit, dry_run, files, i, pc, success_count,
              error_count, skip_count, now, elapsed, task, calls, pause>>

keyVars == <<val, key>>

queryVars == <<df_plants, request, response>>

vars == <<pipeVars, keyVars, queryVars>>

\* ------------------------------------------------------------------------
\* Strings
\* ------------------------------------------------------------------------
RECURSIVE lstrip(_)
lstrip(s) == IF s # <<>> /\ Head(s) = " " THEN lstrip(Tail(s)) ELSE s

RECURSIVE rstrip(_)
rstrip(s) == IF s # <<>> /\ s[Len(s)] = " " THEN rstrip(SubSeq(s, 1, Len(s) - 1)) ELSE s

\* str.strip()
strip(s) == rstrip(lstrip(s))

Digits == { "0", "1", "2", "3", "4", "5", "6", "7", "8", "9" }

DigitValue(c) ==
    CASE c = "0" -> 0 [] c = "1" -> 1 [] c = "2" -> 2 [] c = "3" -> 3 [] c = "4" -> 4
      [] c = "5" -> 5 [] c = "6" -> 6 [] c = "7" -> 7 [] c = "8" -> 8 [] c = "9" -> 9

UpperCase == << "A", "B", "C", "D", "E", "F", "G", "H", "I", "J", "K", "L", "M",
                "N", "O", "P", "Q", "R", "S", "T", "U", "V", "W", "X", "Y", "Z" >>
LowerCase == << "a", "b", "c", "d", "e", "f", "g", "h", "i", "j", "k", "l", "m",
                "n", "o", "p", "q", "r", "s", "t", "u", "v", "w", "x", "y", "z" >>

lower_char(c) ==
    IF \E k \in 1..Len(UpperCase) : UpperCase[k] = c
    THEN LowerCase[CHOOSE k \in 1..Len(UpperCase) : UpperCase[k] = c]
    ELSE c

\* str.lower()
lower(s) == [k \in 1..Len(s) |-> lower_char(s[k])]

\* `sub in s`
Contains(s, sub) ==
    \E p \in 1..(Len(s) - Len(sub) + 1) : SubSeq(s, p, p + Len(sub) - 1) = sub

\* the end (exclusive) of the longest run of characters of cs that starts at p
RECURSIVE RunEnd(_, _, _)
RunEnd(s, p, cs) == IF p <= Len(s) /\ s[p] \in cs THEN RunEnd(s, p + 1, cs) ELSE p

\* int of a string of digits
RECURSIVE IntOf(_)
IntOf(ds) == IF ds = <<>> THEN 0 ELSE 10 * IntOf(SubSeq(ds, 1, Len(ds) - 1)) + DigitValue(ds[Len(ds)])

RECURSIVE GCD(_, _)
GCD(a, b) == IF b = 0 THEN a ELSE GCD(b, a % b)

\* ------------------------------------------------------------------------
\* Numbers: a float is kept as the exact fraction n/d in lowest terms, and
\* float('inf') as Infinity
\* ------------------------------------------------------------------------
Infinity == [inf |-> TRUE, n |-> 0, d |-> 1]

Frac(n, d) == LET g == GCD(n, d) IN [inf |-> FALSE, n |-> n \div g, d |-> d \div g]

\* a * b for finite a, b
Times(a, b) == Frac(a.n * b.n, a.d * b.d)

\* a < b
Less(a, b) ==
    IF a.inf THEN FALSE
    ELSE IF b.inf THEN TRUE
    ELSE a.n * b.d < b.n * a.d

\* float(s) for s matched by [\d\.]+ or \d+ : ValueError unless s holds at
\* least one digit and at most one dot
float(s) ==
    LET dots == { p \in 1..Len(s) : s[p] = "." }
        digs == SelectSeq(s, LAMBDA c : c \in Digits)
    IN  IF Cardinality(dots) > 1 \/ digs = <<>>
        THEN [ok |-> FALSE, v |-> Infinity]
        ELSE LET decimals == IF dots = {} THEN 0
                             ELSE Len(s) - (CHOOSE p \in dots : TRUE)
             IN  [ok |-> TRUE, v |-> Frac(IntOf(digs), 10 ^ decimals)]

\* ------------------------------------------------------------------------
\* Sort keys (src/backend/main.py)
\* ------------------------------------------------------------------------
\* (float('inf'), float('inf'))
InfKey == <<Infinity, Infinity>>

Returned(v) == [ok |-> TRUE, value |-> v]
\* an exception leaves the function
Raised == [ok |-> FALSE, value |-> InfKey]

\* re.findall(r'\d+', s), scanning from position p
RECURSIVE findall_digits(_, _)
findall_digits(s, p) ==
    IF p > Len(s) THEN <<>>
    ELSE IF s[p] \in Digits
    THEN LET e == RunEnd(s, p, Digits)
         IN  <<SubSeq(s, p, e - 1)>> \o findall_digits(s, e)
    ELSE findall_digits(s, p + 1)

parse_maturity(v) ==
    IF v = <<>> THEN Returned(InfKey)
    ELSE LET s == lower(v)
             nums == findall_digits(s, 1)
         IN  IF nums = <<>> THEN Returned(InfKey)
             ELSE LET is_years == Contains(s, <<"y", "e", "a", "r">>)
                      factor == IF is_years THEN Frac(12, 1) ELSE Frac(1, 1)
                      first == Times(float(nums[1]).v, factor)
                      second == IF Len(nums) > 1 THEN Times(float(nums[2]).v, factor) ELSE first
                  IN  Returned(<<first, second>>)

parse_lifespan(v) ==
    IF v = <<>> THEN Returned(InfKey)
    ELSE LET s == lower(v)
             nums == findall_digits(s, 1)
         IN  IF Contains(s, <<"a", "n", "n", "u", "a", "l">>)
             THEN Returned(<<Frac(1, 10), Frac(1, 10)>>)
             ELSE IF Contains(s, <<"b", "i", "e", "n", "n", "i", "a", "l">>)
             THEN Returned(<<Frac(2, 10), Frac(2, 10)>>)
             ELSE IF Contains(s, <<"p", "e", "r", "e", "n", "n", "i", "a", "l">>)
             THEN Returned(<<Frac(3, 10), Frac(3, 10)>>)
             ELSE IF nums = <<>>
             THEN Returned(<<Frac(9999, 1), Frac(9999, 1)>>)
             ELSE LET is_months == Contains(s, <<"m", "o", "n", "t", "h">>)
                                   /\ ~Contains(s, <<"y", "e", "a", "r">>)
                      factor == IF is_months THEN Frac(1, 12) ELSE Frac(1, 1)
                      first == Times(float(nums[1]).v, factor)
                      second == IF Len(nums) > 1 THEN Times(float(nums[2]).v, factor) ELSE first
                  IN  Returned(<<first, second>>)

\* order.get(val, 99)
parse_strata(v) ==
    Returned(CASE v = <<"E", "m", "e", "r", "g", "e", "n", "t">> -> 0
               [] v = <<"L", "o", "w">> -> 1
               [] v = <<"M", "e", "d", "i", "u", "m">> -> 2
               [] v = <<"H", "i", "g", "h">> -> 3
               [] OTHER -> 99)

\* [\d\.]
NumChars == Digits \cup { "." }
\* \s (of the characters of the model, the blank)
Blanks == { " " }

\* re.findall(r'([\d\.]+)\s*(cm|m)?', s), scanning from position p
RECURSIVE findall_spacing(_, _)
findall_spacing(s, p) ==
    IF p > Len(s) THEN <<>>
    ELSE IF s[p] \in NumChars
    THEN LET e == RunEnd(s, p, NumChars)
             u == RunEnd(s, e, Blanks)
             unit == IF u + 1 <= Len(s) /\ s[u] = "c" /\ s[u + 1] = "m" THEN "cm"
                     ELSE IF u <= Len(s) /\ s[u] = "m" THEN "m"
                     ELSE ""
             next == IF unit = "cm" THEN u + 2 ELSE IF unit = "m" THEN u + 1 ELSE u
         IN  <<[num |-> SubSeq(s, p, e - 1), unit |-> unit]>> \o findall_spacing(s, next)
    ELSE findall_spacing(s, p + 1)

\* global_is_cm = 'cm' in s
GlobalIsCm(s) == Contains(s, <<"c", "m">>)

parse_spacing(v) ==
    IF v = <<>> THEN Returned(InfKey)
    ELSE LET s == lower(v)
             matches == findall_spacing(s, 1)
         IN  IF matches = <<>> THEN Returned(InfKey)
             ELSE LET global_factor == IF GlobalIsCm(s) THEN Frac(1, 100) ELSE Frac(1, 1)
                      floats == [k \in 1..Len(matches) |-> float(matches[k].num)]
                      vals == [k \in 1..Len(matches) |->
                                 IF matches[k].unit = "cm" THEN Times(floats[k].v, Frac(1, 100))
                                 ELSE IF matches[k].unit = "m" THEN Times(floats[k].v, Frac(1, 1))
                                 ELSE Times(floats[k].v, global_factor)]
                  IN  IF \E k \in 1..Len(matches) : ~floats[k].ok
                      THEN Raised      \* ValueError of float(num_str)
                      ELSE Returned(<<vals[1], IF Len(vals) > 1 THEN vals[2] ELSE vals[1]>>)

\* the attribute strings the functions are applied to
KeyAlphabet == { "1", "2", ".", " ", "c", "m", "C" }

KeyExamples ==
    { <<"5", "0", " ", "c", "m", " ", "-", " ", "1", " ", "m">>,
      <<"1", "0", "-", "2", "0", " ", "c", "m">>,
      <<"1", "-", "2", " ", "m">>,
      <<"a", "p", "p", "r", "o", "x", ".", " ", "2", " ", "m">>,
      <<"1", ".", "2", ".", "3">>,
      <<"0", ".", "5", " ", "m">>,
      <<"3", "0", " ", "C", "M">>,
      <<"6", "-", "8", " ", "m", "o", "n", "t", "h", "s">>,
      <<"1", " ", "y", "e", "a", "r">>,
      <<"2", "-", "3", " ", "Y", "e", "a", "r", "s">>,
      <<"s", "o", "o", "n">>,
      <<"A", "n", "n", "u", "a", "l", " ", "(", "6", " ", "m", "o", "n", "t", "h", "s", ")">>,
      <<"B", "i", "e", "n", "n", "i", "a", "l">>,
      <<"P", "e", "r", "e", "n", "n", "i", "a", "l">>,
      <<"6", " ", "m", "o", "n", "t", "h", "s">>,
      <<"2", "0", "-", "3", "0", " ", "y", "e", "a", "r", "s">>,
      <<"E", "m", "e", "r", "g", "e", "n", "t">>,
      <<"L", "o", "w">>,
      <<"M", "e", "d", "i", "u", "m">>,
      <<"H", "i", "g", "h">>,
      <<"l", "o", "w">> }

KeyInputs == UNION { [1..n -> KeyAlphabet] : n \in 0..MaxLen } \cup KeyExamples

NoKey == [fn |-> "none", ok |-> TRUE, value |-> InfKey]

KeyInit == val \in KeyInputs /\ key = NoKey
KeyIdle == val = <<>> /\ key = NoKey

Apply(fn, r) ==
    /\ key' = [fn |-> fn, ok |-> r.ok, value |-> r.value]
    /\ UNCHANGED <<val, pipeVars, queryVars>>

ParseMaturity == Apply("maturity", parse_maturity(val))
ParseLifespan == Apply("lifespan", parse_lifespan(val))
ParseStrata == Apply("strata", parse_strata(val))
ParseSpacing == Apply("spacing", parse_spacing(val))

KeyNext ==
    \/ ParseMaturity
    \/ ParseLifespan
    \/ ParseStrata
    \/ ParseSpacing

\* ------------------------------------------------------------------------
\* Catalog query service (src/backend/main.py)
\* ------------------------------------------------------------------------
\* the columns of the CSV the handlers read
NameColumns == << "English Name", "Botanical Name" >>
\* filter_map of get_plants, in its order
FilterColumns == << "Plant Family", "Strata", "Lifecycle", "Time-to-Maturity", "Lifespan",
                    "Zone", "Origin", "Function", "Spacing" >>
Columns == { NameColumns[k] : k \in 1..Len(NameColumns) }
             \cup { FilterColumns[k] : k \in 1..Len(FilterColumns) }

\* rows a tropical-plants.csv can hold (an empty cell is written as <<>>;
\* no cell is a bare number, so read_csv keeps every column a string column)
PlantKinds ==
    { ("English Name" :> <<"F", "i", "g">> @@
       "Botanical Name" :> <<"F", "a">> @@
       "Plant Family" :> <<"A">> @@
       "Strata" :> <<"H", "i", "g", "h">> @@
       "Lifecycle" :> <<"T", "r", "e", "e">> @@
       "Time-to-Maturity" :> <<"1", " ", "y", "e", "a", "r">> @@
       "Lifespan" :> <<"A", "n", "n", "u", "a", "l">> @@
       "Zone" :> <<"X">> @@
       "Origin" :> <<"A", "s", "i", "a">> @@
       "Function" :> <<"F", "o", "o", "d">> @@
       "Spacing" :> <<"1", " ", "m">>),
      ("English Name" :> <<"O", "a", "k">> @@
       "Botanical Name" :> <<"Q", "b">> @@
       "Plant Family" :> <<"B">> @@
       "Strata" :> <<"L", "o", "w">> @@
       "Lifecycle" :> <<"T", "r", "e", "e">> @@
       "Time-to-Maturity" :> <<"6", " ", "m", "o", "n", "t", "h", "s">> @@
       "Lifespan" :> <<"2", "0", " ", "y", "e", "a", "r", "s">> @@
       "Zone" :> <<"X">> @@
       "Origin" :> <<"A", "s", "i", "a">> @@
       "Function" :> <<"S", "h", "a", "d", "e">> @@
       "Spacing" :> <<"5", "0", " ", "c", "m">>),
      ("English Name" :> <<"F", "e", "r", "n">> @@
       "Botanical Name" :> <<"P", "f">> @@
       "Plant Family" :> <<"A">> @@
       "Strata" :> <<"L", "o", "w">> @@
       "Lifecycle" :> <<"H", "e", "r", "b">> @@
       "Time-to-Maturity" :> <<"6", " ", "m", "o", "n", "t", "h", "s">> @@
       "Lifespan" :> <<"A", "n", "n", "u", "a", "l">> @@
       "Zone" :> <<"Y">> @@
       "Origin" :> <<"P", "e", "r", "u">> @@
       "Function" :> <<"F", "o", "o", "d">> @@
       "Spacing" :> <<"1", " ", "m">>),
      ("English Name" :> <<>> @@
       "Botanical Name" :> <<"Z", "z">> @@
       "Plant Family" :> <<>> @@
       "Strata" :> <<>> @@
       "Lifecycle" :> <<>> @@
       "Time-to-Maturity" :> <<>> @@
       "Lifespan" :> <<>> @@
       "Zone" :> <<>> @@
       "Origin" :> <<>> @@
       "Function" :> <<>> @@
       "Spacing" :> <<>>) }

Catalogs == UNION { [1..n -> PlantKinds] : n \in 0..MaxPlants }

\* an empty cell as pd.read_csv gives it
NaN == << "NaN" >>

\* pd.read_csv(CSV_PATH)
read_csv(csv) ==
    [k \in 1..Len(csv) |-> [c \in Columns |-> IF csv[k][c] = <<>> THEN NaN ELSE csv[k][c]]]

\* df.fillna("")
fillna(rs) ==
    [k \in 1..Len(rs) |-> [c \in Columns |-> IF rs[k][c] = NaN THEN <<>> ELSE rs[k][c]]]

\* load_data: a list when the file is missing, else the DataFrame
load_data(exists, csv) ==
    IF ~exists THEN [kind |-> "list", rows |-> <<>>]
    ELSE [kind |-> "DataFrame", rows |-> fillna(read_csv(csv))]

\* an optional parameter: given = FALSE is None
NotGiven == [given |-> FALSE, v |-> <<>>]
Given(v) == [given |-> TRUE, v |-> v]

\* `if ids:` / `if q:` / `if values:` (None, "" and [] are falsy)
Truthy(x) == x.given /\ x.v # <<>>

\* Series.isin(values)
isin(x, values) == \E k \in 1..Len(values) : values[k] = x

\* re.compile(pat) raises re.error (of the characters of the model, an
\* unbalanced parenthesis)
re_error(pat) == \E p \in 1..Len(pat) : pat[p] = "("

\* re.compile(pat, re.IGNORECASE).search(text) for a pattern of literal
\* characters and dots
re_search(pat, text) ==
    \E p \in 1..(Len(text) - Len(pat) + 1) :
        \A k \in 1..Len(pat) :
            pat[k] = "." \/ lower_char(pat[k]) = lower_char(text[p + k - 1])

\* Series.str.contains(q, case=False, na=False) on one cell
str_contains(pat, text) == re_search(pat, text)

\* a filtering step that raised
Fail(st, e) == [st EXCEPT !.err = e]

\* filtered_df[mask]
Keep(st, kept) == [st EXCEPT !.df.rows = kept]

\* `if ids: filtered_df = filtered_df[filtered_df["Botanical Name"].isin(ids)]`
ByIds(st, ids) ==
    IF st.err # "" \/ ~Truthy(ids) THEN st
    ELSE IF st.df.kind = "list" THEN Fail(st, "TypeError")
    ELSE Keep(st, SelectSeq(st.df.rows, LAMBDA r : isin(r["Botanical Name"], ids.v)))

\* `if q:` the search on the two name columns
BySearch(st, q) ==
    IF st.err # "" \/ ~Truthy(q) THEN st
    ELSE IF st.df.kind = "list" THEN Fail(st, "TypeError")
    ELSE IF re_error(q.v) THEN Fail(st, "re.error")
    ELSE Keep(st, SelectSeq(st.df.rows,
                            LAMBDA r : str_contains(q.v, r["English Name"])
                                       \/ str_contains(q.v, r["Botanical Name"])))

\* `for col, values in filter_map.items(): if values: ...`, from column k on
RECURSIVE ByColumns(_, _, _)
ByColumns(st, filter_map, k) ==
    IF k > Len(FilterColumns) THEN st
    ELSE LET col == FilterColumns[k]
             values == filter_map[col]
             next == IF st.err # "" \/ ~Truthy(values) THEN st
                     ELSE IF st.df.kind = "list" THEN Fail(st, "TypeError")
                     ELSE Keep(st, SelectSeq(st.df.rows, LAMBDA r : isin(r[col], values.v)))
         IN  ByColumns(next, filter_map, k + 1)

\* filtered_df.to_dict(orient="records")
to_dict(st) ==
    IF st.err # "" THEN [status |-> "error", error |-> st.err, body |-> <<>>]
    ELSE IF st.df.kind = "list"
    THEN [status |-> "error", error |-> "AttributeError", body |-> <<>>]
    ELSE [status |-> "ok", error |-> "", body |-> st.df.rows]

get_plants(df, q, ids, filter_map) ==
    to_dict(ByColumns(BySearch(ByIds([err |-> "", df |-> df], ids), q), filter_map, 1))

\* the characters of the model in code-point order (the order of str.__lt__)
CodeOrder == << " ", "(", "-", ".", "0", "1", "2", "3", "4", "5", "6", "7", "8", "9" >>
                 \o UpperCase \o LowerCase

ord(c) == CHOOSE k \in 1..Len(CodeOrder) : CodeOrder[k] = c

\* a < b for two str
RECURSIVE StrLess(_, _)
StrLess(a, b) ==
    IF b = <<>> THEN FALSE
    ELSE IF a = <<>> THEN TRUE
    ELSE IF a[1] = b[1] THEN StrLess(Tail(a), Tail(b))
    ELSE ord(a[1]) < ord(b[1])

\* a < b for two (start, end) tuples
TupleLess(a, b) == Less(a[1], b[1]) \/ (a[1] = b[1] /\ Less(a[2], b[2]))

\* the key= argument of a sorted(...) of get_filters: "" is no key
KeyOf(fn, v) ==
    CASE fn = "maturity" -> parse_maturity(v)
      [] fn = "lifespan" -> parse_lifespan(v)
      [] fn = "strata" -> parse_strata(v)
      [] fn = "spacing" -> parse_spacing(v)
      [] OTHER -> Returned(v)

\* key(a) < key(b)
KeyLess(fn, a, b) ==
    LET ka == KeyOf(fn, a).value
        kb == KeyOf(fn, b).value
    IN  CASE fn = "" -> StrLess(ka, kb)
          [] fn = "strata" -> ka < kb
          [] OTHER -> TupleLess(ka, kb)

\* Series.unique().tolist(): the distinct values in order of first appearance
RECURSIVE unique(_)
unique(l) ==
    IF l = <<>> THEN <<>>
    ELSE LET init == unique(SubSeq(l, 1, Len(l) - 1))
             x == l[Len(l)]
         IN  IF isin(x, init) THEN init ELSE Append(init, x)

\* x put into the sorted list l behind every element that is not greater
RECURSIVE insort(_, _, _)
insort(fn, l, x) ==
    IF l = <<>> THEN << x >>
    ELSE IF KeyLess(fn, x, l[Len(l)]) THEN Append(insort(fn, SubSeq(l, 1, Len(l) - 1), x), l[Len(l)])
    ELSE Append(l, x)

\* sorted(l, key=fn): stable, ascending
RECURSIVE sorted(_, _)
sorted(fn, l) ==
    IF l = <<>> THEN <<>>
    ELSE insort(fn, sorted(fn, SubSeq(l, 1, Len(l) - 1)), l[Len(l)])

\* [x for x in filters[key] if x]
drop_empty(l) == SelectSeq(l, LAMBDA x : x # <<>>)

\* the keys of the dict get_filters returns: name, column, sort key
FilterKeys ==
    << << "plant_family", "Plant Family", "" >>,
       << "strata", "Strata", "strata" >>,
       << "lifecycle", "Lifecycle", "" >>,
       << "time_to_maturity", "Time-to-Maturity", "maturity" >>,
       << "lifespan", "Lifespan", "lifespan" >>,
       << "zone", "Zone", "" >>,
       << "origin", "Origin", "" >>,
       << "function", "Function", "" >>,
       << "spacing", "Spacing", "spacing" >> >>

\* df_plants[col]
Column(df, col) == [k \in 1..Len(df.rows) |-> df.rows[k][col]]

get_filters(df) ==
    IF df.kind = "list"
    THEN [status |-> "error", error |-> "TypeError", body |-> <<>>]
    ELSE IF \E f \in 1..Len(FilterKeys) : \E k \in 1..Len(df.rows) :
                ~KeyOf(FilterKeys[f][3], df.rows[k][FilterKeys[f][2]]).ok
    THEN [status |-> "error", error |-> "ValueError", body |-> <<>>]
    ELSE [status |-> "ok", error |-> "",
          body |-> [f \in 1..Len(FilterKeys) |->
                       << FilterKeys[f][1],
                          drop_empty(sorted(FilterKeys[f][3],
                                            unique(Column(df, FilterKeys[f][2])))) >>]]

\* --- the requests of the model ---
\* the values a list parameter can name, per column
Values(col) == { k[col] : k \in PlantKinds } \ { <<>> }

\* [], one value, or two values
ListsOf(S) ==
    { <<>> } \cup { << v >> : v \in S }
             \cup { p \in S \X S : StrLess(p[1], p[2]) }

NoFilters == [c \in Columns \ { "English Name", "Botanical Name" } |-> NotGiven]

\* filter maps that select at most MaxFilters categories
\* the maps that select one more category than a map of S
OneMore(S) ==
    UNION { UNION { { [m EXCEPT ![c] = Given(l)] : l \in ListsOf(Values(c)) }
                    : c \in { d \in DOMAIN m : ~m[d].given } }
            : m \in S }

\* filter maps that select at most n categories
RECURSIVE FilterMaps(_)
FilterMaps(n) ==
    IF n = 0 THEN { NoFilters }
    ELSE LET prev == FilterMaps(n - 1) IN prev \cup OneMore(prev)

SearchTexts == { NotGiven, Given(<<>>), Given(<< "f" >>), Given(<< "K" >>),
                 Given(<< "a", "." >>), Given(<< "(" >>) }

IdLists == { NotGiven } \cup { Given(l) : l \in ListsOf({ << "F", "a" >>, << "Q", "b" >> }) }

NoRequest == [q |-> NotGiven, ids |-> NotGiven, filter_map |-> NoFilters]
NoResponse == [op |-> "none", status |-> "ok", error |-> "", body |-> <<>>]

\* df_plants = load_data() at import
QueryInit ==
    /\ \E exists \in BOOLEAN : \E csv \in Catalogs : df_plants = load_data(exists, csv)
    /\ request = NoRequest
    /\ response = NoResponse

QueryIdle ==
    /\ df_plants = load_data(FALSE, <<>>)
    /\ request = NoRequest
    /\ response = NoResponse

\* GET /api/filters
GetFilters ==
    /\ response.op = "none"
    /\ response' = [op |-> "filters"] @@ get_filters(df_plants)
    /\ UNCHANGED <<df_plants, request, pipeVars, keyVars>>

\* GET /api/plants
GetPlants ==
    /\ response.op = "none"
    /\ \E q \in SearchTexts : \E ids \in IdLists : \E m \in FilterMaps(MaxFilters) :
          /\ request' = [q |-> q, ids |-> ids, filter_map |-> m]
          /\ response' = [op |-> "plants"] @@ get_plants(df_plants, q, ids, m)
    /\ UNCHANGED <<df_plants, pipeVars, keyVars>>

\* the response is sent; the service waits for the next request
Return ==
    /\ response.op # "none"
    /\ request' = NoRequest
    /\ response' = NoResponse
    /\ UNCHANGED <<df_plants, pipeVars, keyVars>>

QueryNext ==
    \/ GetFilters
    \/ GetPlants
    \/ Return

\* ------------------------------------------------------------------------
\* Pipeline: inputs
\* ------------------------------------------------------------------------
\* raw cells of the "Image Name" column (a trailing blank is stripped)
RawNames == { <<>>, <<"a">>, <<"b", " ">> }
\* raw cells of the "Image Prompt" column (a blank cell is stripped to empty)
RawPrompts == { <<" ">>, <<"p">> }
\* the rows of a catalog: complete, or missing the name, the prompt or both
RowKinds == { r \in [image_name : RawNames, prompt : RawPrompts] :
                r.prompt = <<" ">> => r.image_name # <<"b", " ">> }
\* names a destination file can have
FileNames == { strip(n) : n \in RawNames } \ { <<>> }

NoLimit == [given |-> FALSE, n |-> 0]
Limits == { NoLimit } \cup { [given |-> TRUE, n |-> k] : k \in 0..MaxArg }

RowIdx == 0..(MaxRows - 1)

\* responses of the remote service and of the network
SubmitResponses == { "ok", "http_error", "api_error", "no_task_id" }
PollResponses == { "generating", "success", "success_no_url", "create_failed",
                   "generate_failed", "unknown_flag", "http_error" }
DownloadResponses == { "ok", "http_error", "broken_stream" }
\* seconds a status request can take
Latencies == { 0, 5 }

\* ------------------------------------------------------------------------
\* Pipeline: the conditions of main and process_plant
\* ------------------------------------------------------------------------
image_name(k) == strip(rows[k + 1].image_name)
prompt(k) == strip(rows[k + 1].prompt)

\* `if i < args.start: continue`
BeforeStart(k) == k < start

\* `if args.limit and (i - args.start) >= args.limit: break`
\* (None and 0 are both falsy)
LimitReached(k) == limit.given /\ limit.n # 0 /\ (k - start) >= limit.n

\* a row is dropped only when both cells are empty
MissingBoth(k) == image_name(k) = <<>> /\ prompt(k) = <<>>

\* `if not image_name or not prompt`
MissingField(k) == image_name(k) = <<>> \/ prompt(k) = <<>>

\* Path.exists() of output_dir / name (output_dir / "" is output_dir itself)
Exists(name) == IF name = <<>> THEN TRUE ELSE files[name] # "absent"

\* main without its own exists check
MainExistsNever(k) == FALSE

\* `if (output_dir / image_name).exists()` in main
MainExists(k) == Exists(image_name(k))

\* the ceiling checked one poll late
TimedOutLate(e) == e > MAX_POLL_TIME + POLL_INTERVAL

\* `if elapsed > MAX_POLL_TIME` in poll_task_status
TimedOut(e) == e > MAX_POLL_TIME

\* `time.sleep(2)` in the else branch of `if success`
ErrorPause(success) == IF success THEN 0 ELSE ERROR_SLEEP

\* the short sleep taken after every task of a real run
SuccessPauseAlways(success) == IF ~dry_run THEN SUCCESS_SLEEP ELSE 0

\* `if not args.dry_run and success: time.sleep(1)`
SuccessPause(success) == IF ~dry_run /\ success THEN SUCCESS_SLEEP ELSE 0

\* the row the loop is at is processed (not before start, not past the limit)
AtRow == pc = "loop" /\ i < Len(rows) /\ ~BeforeStart(i) /\ ~LimitReached(i)

\* ------------------------------------------------------------------------
\* Pipeline: actions
\* ------------------------------------------------------------------------
PipeInit ==
    /\ rows \in [1..MaxRows -> RowKinds]
    /\ start \in 0..MaxArg
    /\ limit \in Limits
    /\ dry_run \in BOOLEAN
    /\ files \in [FileNames -> {"absent", "old"}]
    /\ i = 0
    /\ pc = "loop"
    /\ success_count = 0 /\ error_count = 0 /\ skip_count = 0
    /\ now = 0 /\ elapsed = 0
    /\ task = [k \in RowIdx |-> "PENDING"]
    /\ calls = [k \in RowIdx |-> {}]
    /\ pause = [k \in RowIdx |-> 0]

\* the pipeline is not run
PipeIdle ==
    /\ rows = <<>> /\ start = 0 /\ limit = NoLimit /\ dry_run = FALSE
    /\ files = [n \in FileNames |-> "absent"]
    /\ i = 0 /\ pc = "idle"
    /\ success_count = 0 /\ error_count = 0 /\ skip_count = 0
    /\ now = 0 /\ elapsed = 0
    /\ task = [k \in RowIdx |-> "PENDING"]
    /\ calls = [k \in RowIdx |-> {}]
    /\ pause = [k \in RowIdx |-> 0]

\* process_plant without its try/except: an exception ends the run
AccountUncaught(success, status) ==
    /\ task' = [task EXCEPT ![i] = status]
    /\ success_count' = IF success THEN success_count + 1 ELSE success_count
    /\ error_count' = error_count
    /\ pause' = pause
    /\ i' = IF success THEN i + 1 ELSE i
    /\ pc' = IF success THEN "loop" ELSE "crashed"
    /\ now' = 0 /\ elapsed' = 0
    /\ UNCHANGED <<rows, start, limit, dry_run, skip_count>>

\* main, after process_plant returned `success`: the counters, the sleeps,
\* and on to the next row
Account(success, status) ==
    /\ task' = [task EXCEPT ![i] = status]
    /\ success_count' = IF success THEN success_count + 1 ELSE success_count
    /\ error_count' = IF success THEN error_count ELSE error_count + 1
    /\ pause' = [pause EXCEPT ![i] = ErrorPause(success) + SuccessPause(success)]
    /\ i' = i + 1
    /\ pc' = "loop"
    /\ now' = 0 /\ elapsed' = 0
    /\ UNCHANGED <<rows, start, limit, dry_run, skip_count>>

\* `continue` for a row before --start
SkipBeforeStart ==
    /\ pc = "loop" /\ i < Len(rows) /\ BeforeStart(i)
    /\ UNCHANGED <<keyVars, queryVars>>
    /\ i' = i + 1
    /\ UNCHANGED <<rows, start, limit, dry_run, files, pc, success_count, error_count,
                   skip_count, now, elapsed, task, calls, pause>>

\* `break` when the limit is reached
LimitBreak ==
    /\ pc = "loop" /\ i < Len(rows) /\ ~BeforeStart(i) /\ LimitReached(i)
    /\ UNCHANGED <<keyVars, queryVars>>
    /\ pc' = "done"
    /\ UNCHANGED <<rows, start, limit, dry_run, files, i, success_count, error_count,
                   skip_count, now, elapsed, task, calls, pause>>

\* the for loop is exhausted: the final summary
LoopEnd ==
    /\ pc = "loop" /\ i = Len(rows)
    /\ UNCHANGED <<keyVars, queryVars>>
    /\ pc' = "done"
    /\ UNCHANGED <<rows, start, limit, dry_run, files, i, success_count, error_count,
                   skip_count, now, elapsed, task, calls, pause>>

\* a skipped row: skip_count += 1; continue
Skip ==
    /\ task' = [task EXCEPT ![i] = "SKIPPED"]
    /\ skip_count' = skip_count + 1
    /\ i' = i + 1
    /\ UNCHANGED <<rows, start, limit, dry_run, files, pc, success_count, error_count,
                   now, elapsed, calls, pause>>

\* "missing image name or prompt"
SkipMissing ==
    /\ AtRow /\ MissingField(i)
    /\ UNCHANGED <<keyVars, queryVars>>
    /\ Skip

\* "already exists", checked in main
SkipExisting ==
    /\ AtRow /\ ~MissingField(i) /\ MainExists(i)
    /\ UNCHANGED <<keyVars, queryVars>>
    /\ Skip

\* process_plant up to the submission: its own exists check, the dry run,
\* then submit_generation_task (one POST)
ProcessPlant ==
    /\ AtRow /\ ~MissingField(i) /\ ~MainExists(i)
    /\ UNCHANGED <<keyVars, queryVars>>
    /\ IF Exists(image_name(i))
       THEN Account(TRUE, "SKIPPED_IN_TASK") /\ UNCHANGED <<files, calls>>
       ELSE IF dry_run
       THEN Account(TRUE, "DRY_RUN") /\ UNCHANGED <<files, calls>>
       ELSE \E r \in SubmitResponses :
              /\ calls' = [calls EXCEPT ![i] = @ \cup {"submit"}]
              /\ IF r = "ok"
                 THEN /\ pc' = "poll"
                      \* start_time = time.time(); elapsed = time.time() - start_time
                      /\ now' = 0 /\ elapsed' = 0
                      /\ UNCHANGED <<rows, start, limit, dry_run, files, i, success_count,
                                     error_count, skip_count, task, pause>>
                 ELSE Account(FALSE, "FAILED") /\ UNCHANGED files

\* A state at "poll" is the point of the while loop of poll_task_status just
\* after `elapsed = time.time() - start_time`; a step runs from there to the
\* same point of the next iteration, or to the end of the function.
\* The elapsed check raises TimeoutError:
PollTimeout ==
    /\ pc = "poll" /\ TimedOut(elapsed)
    /\ UNCHANGED <<keyVars, queryVars>>
    /\ Account(FALSE, "TIMED_OUT")
    /\ UNCHANGED <<files, calls>>

\* The elapsed check passes and the remote is asked:
PollStatus ==
    /\ pc = "poll" /\ ~TimedOut(elapsed)
    /\ UNCHANGED <<keyVars, queryVars>>
    /\ \E d \in Latencies, r \in PollResponses :
         /\ calls' = [calls EXCEPT ![i] = @ \cup {"poll"}]
         /\ CASE r = "success" ->
                   \* return task_data; resultImageUrl is present
                   /\ pc' = "download"
                   /\ elapsed' = 0      \* poll_task_status has returned
                   /\ now' = now + d
                   /\ UNCHANGED <<rows, start, limit, dry_run, files, i, success_count,
                                  error_count, skip_count, task, pause>>
              [] r \in {"generating", "unknown_flag"} ->
                   \* time.sleep(POLL_INTERVAL), then the next iteration's
                   \* elapsed = time.time() - start_time
                   /\ now' = now + d + POLL_INTERVAL
                   /\ elapsed' = now + d + POLL_INTERVAL
                   /\ UNCHANGED <<rows, start, limit, dry_run, files, i, pc, success_count,
                                  error_count, skip_count, task, pause>>
              [] OTHER ->
                   \* raise_for_status, successFlag 2 or 3, or no resultImageUrl
                   Account(FALSE, "FAILED") /\ UNCHANGED files

\* download_image
Download ==
    /\ pc = "download"
    /\ UNCHANGED <<keyVars, queryVars>>
    /\ \E r \in DownloadResponses :
         /\ calls' = [calls EXCEPT ![i] = @ \cup {"download"}]
         /\ CASE r = "ok" ->
                   /\ files' = [files EXCEPT ![image_name(i)] = "full"]
                   /\ Account(TRUE, "SUCCEEDED")
              [] r = "broken_stream" ->
                   \* open(output_path, 'wb') succeeded, iter_content raised
                   /\ files' = [files EXCEPT ![image_name(i)] = "partial"]
                   /\ Account(FALSE, "FAILED")
              [] OTHER ->
                   Account(FALSE, "FAILED") /\ UNCHANGED files

PipeNext ==
    \/ SkipBeforeStart
    \/ LimitBreak
    \/ LoopEnd
    \/ SkipMissing
    \/ SkipExisting
    \/ ProcessPlant
    \/ PollTimeout
    \/ PollStatus
    \/ Download


\* ------------------------------------------------------------------------
\* Properties of the catalog query service
\* ------------------------------------------------------------------------
\* a catalog was loaded
Loaded == df_plants.kind = "DataFrame"

\* pat is a case-insensitive substring of text
contains_literal(pat, text) == Contains(lower(text), lower(pat))

\* the constraints of a request, read off the interface: membership for the id
\* list and for each selected category, case-insensitive substring for the
\* search text, nothing for an absent or empty input
Satisfies(r, row) ==
    /\ Truthy(r.ids) => isin(row["Botanical Name"], r.ids.v)
    /\ Truthy(r.q) => \/ contains_literal(r.q.v, row["English Name"])
                      \/ contains_literal(r.q.v, row["Botanical Name"])
    /\ \A c \in DOMAIN r.filter_map :
          Truthy(r.filter_map[c]) => isin(row[c], r.filter_map[c].v)

Matching(r) == SelectSeq(df_plants.rows, LAMBDA row : Satisfies(r, row))

\* a search text of letters only
Literal(q) == \A k \in 1..Len(q.v) : q.v[k] \notin { ".", "(" }

\* C1: query plants returns exactly the catalog rows that satisfy every
\* supplied constraint (id list, search text, each selected category), in
\* catalog order and unaltered.
C1_Original ==
    (Loaded /\ response.op = "plants")
        => (response.status = "ok" /\ response.body = Matching(request))

\* the same for search texts without regular-expression characters
PlantsExactForLiteralSearch ==
    (Loaded /\ response.op = "plants" /\ Literal(request.q))
        => (response.status = "ok" /\ response.body = Matching(request))

\* AND across two categories, OR within one, reached with a non-empty answer
TwoCategoriesAnswered ==
    ~ (/\ Loaded /\ response.op = "plants" /\ response.status = "ok"
       /\ Truthy(request.filter_map["Plant Family"])
       /\ Len(request.filter_map["Plant Family"].v) = 2
       /\ Truthy(request.filter_map["Zone"])
       /\ Len(response.body) = 1 /\ Len(df_plants.rows) = 2)

\* an empty result: no rows, and no value under any filter key
EmptyResult ==
    /\ response.status = "ok"
    /\ IF response.op = "filters"
       THEN \A f \in 1..Len(response.body) : response.body[f][2] = <<>>
       ELSE response.body = <<>>

\* C5: with the file missing, list-filter-options and query-plants return an
\* empty result instead of raising.
C5_Original ==
    (~Loaded /\ response.op # "none") => EmptyResult

\* get_filters over a loaded catalog: distinct, no empty string, and only
\* values of the column
FiltersListColumnValues ==
    (Loaded /\ response.op = "filters") =>
        /\ response.status = "ok"
        /\ \A f \in 1..Len(FilterKeys) :
              LET l == response.body[f][2]
                  col == Column(df_plants, FilterKeys[f][2])
              IN  /\ \A a, b \in 1..Len(l) : a # b => l[a] # l[b]
                  /\ { l[k] : k \in 1..Len(l) } = { col[k] : k \in 1..Len(col) } \ { <<>> }

\* ------------------------------------------------------------------------
\* Properties of the pipeline
\* ------------------------------------------------------------------------
Terminal == { "SKIPPED", "SKIPPED_IN_TASK", "DRY_RUN", "SUCCEEDED", "FAILED", "TIMED_OUT" }

\* the rows of the range the loop of main visits
InRange(k) == k \in RowIdx /\ k < Len(rows) /\ ~BeforeStart(k) /\ ~LimitReached(k)

\* the step in which the task of the row at hand ends with a failure
FailStep ==
    /\ pc \in {"loop", "poll", "download"} /\ i < Len(rows)
    /\ task[i] = "PENDING"
    /\ task'[i] \in {"FAILED", "TIMED_OUT"}

\* C2: in a real run, a visited row whose destination file exists when the
\* row is reached causes no network call, adds exactly one to skip_count and
\* leaves success_count, error_count and the files as they are.
C2_ExistingFileSkipped ==
    [][ (AtRow /\ ~dry_run /\ Exists(image_name(i)))
          => /\ calls' = calls
             /\ skip_count' = skip_count + 1
             /\ success_count' = success_count
             /\ error_count' = error_count
             /\ files' = files
             /\ i' = i + 1 ]_vars

C2_Witness ==
    \E k \in RowIdx :
        /\ ~dry_run /\ task[k] = "SKIPPED" /\ image_name(k) # <<>> /\ prompt(k) # <<>>
        /\ files[image_name(k)] = "old" /\ calls[k] = {} /\ skip_count >= 1

\* C3: a failed task (submission error, remote failure, timeout, missing
\* result URL, download error) adds exactly one to error_count and the loop
\* goes on with the next row; every row in range ends in a terminal state and
\* the run reaches its final summary.
C3_FailureNotFatal ==
    /\ [][ FailStep => /\ error_count' = error_count + 1
                       /\ success_count' = success_count
                       /\ skip_count' = skip_count
                       /\ pc' = "loop" /\ i' = i + 1 ]_vars
    /\ [](pc = "done" => \A k \in RowIdx : InRange(k) => task[k] \in Terminal)
    /\ <>(pc = "done")

C3_Witness ==
    /\ pc = "done" /\ ~dry_run
    /\ task[0] \in {"FAILED", "TIMED_OUT"} /\ task[1] = "SUCCEEDED"
    /\ error_count = 1 /\ success_count = 1

\* C4 as stated: no task ends SUCCEEDED once the time since polling began
\* has exceeded MAX_POLL_TIME.
C4_Original ==
    [][ (pc = "download" /\ task'[i] = "SUCCEEDED") => now <= MAX_POLL_TIME ]_vars

\* C4 as amended: elapsed is computed at the top of every poll, before the
\* status request; a poll that finds it over MAX_POLL_TIME ends the task
\* TIMED_OUT without asking the remote, and a task ends SUCCEEDED only from a
\* poll whose check found elapsed <= MAX_POLL_TIME (the answer itself may
\* arrive after the ceiling).
C4_TimeoutCheckedBeforeRequest ==
    [][ /\ (pc = "poll" /\ elapsed > MAX_POLL_TIME)
             => (task'[i] = "TIMED_OUT" /\ calls' = calls /\ files' = files)
        /\ (pc = "poll" /\ pc' = "download") => elapsed <= MAX_POLL_TIME
        /\ (pc' = "download") => pc = "poll" ]_vars

C4_Witness ==
    /\ pc = "download" /\ i = 1 /\ task[0] = "TIMED_OUT"
    /\ now > MAX_POLL_TIME

\* C8 as stated: in a real run a visited row is skipped without a network
\* call only if its file exists or it lacks both cells; every other row is
\* submitted.
C8_Original ==
    [][ (AtRow /\ ~dry_run)
          => ( ("submit" \in calls'[i])
                 <=> ~( Exists(image_name(i))
                        \/ (image_name(i) = <<>> /\ prompt(i) = <<>>) ) ) ]_vars

\* C8 as amended: in a real run a visited row is skipped without a network
\* call exactly when its file exists or it lacks a filename or a prompt
\* (either one); for every other visited row a request is submitted.
C8_SkipOrSubmit ==
    [][ (AtRow /\ ~dry_run)
          => /\ ("submit" \in calls'[i])
                  <=> ~( Exists(image_name(i))
                         \/ image_name(i) = <<>> \/ prompt(i) = <<>> )
             /\ ("submit" \notin calls'[i])
                  => (calls'[i] = {} /\ task'[i] = "SKIPPED"
                      /\ skip_count' = skip_count + 1) ]_vars

C8_Witness ==
    \E k \in RowIdx :
        /\ ~dry_run /\ task[k] = "SKIPPED" /\ calls[k] = {}
        /\ image_name(k) # <<>> /\ prompt(k) = <<>>
        /\ files[image_name(k)] = "absent"

\* C9 as stated: the short pause follows every completed task and a failed
\* task is followed by the short pause plus the longer one.
C9_Original ==
    \A k \in RowIdx :
        /\ task[k] = "SUCCEEDED" => pause[k] = SUCCESS_SLEEP
        /\ task[k] \in {"FAILED", "TIMED_OUT"} => pause[k] = SUCCESS_SLEEP + ERROR_SLEEP

\* C9 as amended: a succeeded task of a real run is followed by the short
\* pause only, a failed task by the longer pause only (the short pause is
\* not added after a failure).
C9_PauseAfterTask ==
    \A k \in RowIdx :
        /\ task[k] = "SUCCEEDED" => pause[k] = SUCCESS_SLEEP
        /\ task[k] \in {"FAILED", "TIMED_OUT"} => pause[k] = ERROR_SLEEP

C9_Witness ==
    /\ task[0] = "FAILED" /\ pause[0] = ERROR_SLEEP
    /\ task[1] = "SUCCEEDED" /\ pause[1] = SUCCESS_SLEEP

\* C10: with --start S and a given --limit N (N >= 0, 0 included) only the
\* rows S <= k < S + N are counted or cause a network call, so at most N
\* requests are submitted.
C10_Original ==
    limit.given =>
        /\ \A k \in RowIdx :
               (task[k] # "PENDING" \/ calls[k] # {}) => (start <= k /\ k < start + limit.n)
        /\ Cardinality({k \in RowIdx : "submit" \in calls[k]}) <= limit.n

\* the same for N >= 1, which the loop honours
LimitHonouredFromOne ==
    (limit.given /\ limit.n >= 1) =>
        /\ \A k \in RowIdx :
               (task[k] # "PENDING" \/ calls[k] # {}) => (start <= k /\ k < start + limit.n)
        /\ pc = "done" =>
               \A k \in RowIdx : (start <= k /\ k < start + limit.n) => task[k] # "PENDING"

\* the rows whose destination is the file n
RowsOf(n) == { k \in RowIdx : k < Len(rows) /\ image_name(k) = n }

\* C11: a destination file that did not exist before the run exists only if
\* a task for it ended SUCCEEDED; a task that ends FAILED (a download that
\* breaks partway included) or TIMED_OUT leaves no file behind, so the next
\* run does not skip the row as already existing.
C11_Original ==
    \A n \in FileNames :
        files[n] \in { "partial", "full" } =>
            /\ files[n] = "full"
            /\ \E k \in RowsOf(n) : task[k] = "SUCCEEDED"

\* what the run does guarantee: a new file is written by download_image
\* only, a complete one by a SUCCEEDED task and a truncated one by a FAILED
\* task whose download began; a TIMED_OUT task never reaches the download
FilesWrittenByDownloadOnly ==
    /\ \A n \in FileNames :
          /\ files[n] = "full" => \E k \in RowsOf(n) : task[k] = "SUCCEEDED"
          /\ files[n] = "partial" =>
                \E k \in RowsOf(n) : task[k] = "FAILED" /\ "download" \in calls[k]
    /\ \A k \in RowIdx : task[k] = "TIMED_OUT" => "download" \notin calls[k]

\* ------------------------------------------------------------------------
\* Properties of the sort keys
\* ------------------------------------------------------------------------
NoDigit(v) == \A p \in 1..Len(v) : v[p] \notin Digits

\* C6: each of the four sort-key functions returns a key for every input
\* string and never fails; a string with no digit maps the maturity and the
\* spacing key to the sorts-last sentinel (inf, inf).
C6_Original ==
    key.fn # "none" =>
        /\ key.ok
        /\ (NoDigit(val) /\ key.fn \in {"maturity", "spacing"}) => key.value = InfKey

\* the three functions that cannot fail
OtherKeysTotal ==
    key.fn \in {"maturity", "lifespan", "strata"} => key.ok

\* The rule of the spacing key, read off the text position by position: the
\* numbers are the maximal runs of digits and dots that form a numeral; the
\* unit of a number is what follows it after optional blanks.
RuleSpacing(v) ==
    LET s == lower(v)
        IsNum(p) == s[p] \in Digits \/ s[p] = "."
        starts == { p \in 1..Len(s) : IsNum(p) /\ (p = 1 \/ ~IsNum(p - 1)) }
        EndOf(p) == CHOOSE e \in p..Len(s) :
                        /\ \A q \in p..e : IsNum(q)
                        /\ (e = Len(s) \/ ~IsNum(e + 1))
        DigitsOf(p) == { q \in p..EndOf(p) : s[q] \in Digits }
        DotsOf(p) == { q \in p..EndOf(p) : s[q] = "." }
        numbers == { p \in starts : DigitsOf(p) # {} /\ Cardinality(DotsOf(p)) <= 1 }
        Decimals(p) == Cardinality({ q \in DigitsOf(p) : \E t \in DotsOf(p) : t < q })
        Mantissa(p) == IntOf(SelectSeq(SubSeq(s, p, EndOf(p)), LAMBDA c : c \in Digits))
        After(p) == CHOOSE u \in (EndOf(p) + 1)..(Len(s) + 1) :
                        /\ \A q \in (EndOf(p) + 1)..(u - 1) : s[q] = " "
                        /\ (u = Len(s) + 1 \/ s[u] # " ")
        HasCm(p) == After(p) + 1 <= Len(s) /\ s[After(p)] = "c" /\ s[After(p) + 1] = "m"
        HasM(p) == After(p) <= Len(s) /\ s[After(p)] = "m"
        cmAnywhere == \E q \in 1..(Len(s) - 1) : s[q] = "c" /\ s[q + 1] = "m"
        PerMetre(p) == IF HasCm(p) THEN 100
                       ELSE IF HasM(p) THEN 1
                       ELSE IF cmAnywhere THEN 100 ELSE 1
        Metres(p) == Frac(Mantissa(p), (10 ^ Decimals(p)) * PerMetre(p))
        first == CHOOSE p \in numbers : \A q \in numbers : p <= q
        rest == numbers \ { first }
        second == CHOOSE p \in rest : \A q \in rest : p <= q
    IN  IF numbers = {} THEN InfKey
        ELSE <<Metres(first), IF rest = {} THEN Metres(first) ELSE Metres(second)>>

\* C7: the spacing key of every string is the pair the unit rule gives
\* (explicit unit first, else centimetres when "cm" occurs anywhere, else
\* metres; first value is start, second is end, else end = start), so that
\* "50 cm - 1 m" gives (0.5, 1.0), "10-20 cm" (0.1, 0.2), "1-2 m" (1.0, 2.0).
C7_Original ==
    key.fn = "spacing" => (key.ok /\ key.value = RuleSpacing(val))

\* whenever parse_spacing returns, it returns what the rule gives
SpacingRuleWhenReturned ==
    (key.fn = "spacing" /\ key.ok) => key.value = RuleSpacing(val)

\* the three examples of the specification
SpacingExamples ==
    key.fn = "spacing" =>
        /\ val = <<"5", "0", " ", "c", "m", " ", "-", " ", "1", " ", "m">>
             => (key.ok /\ key.value = <<Frac(1, 2), Frac(1, 1)>>)
        /\ val = <<"1", "0", "-", "2", "0", " ", "c", "m">>
             => (key.ok /\ key.value = <<Frac(1, 10), Frac(2, 10)>>)
        /\ val = <<"1", "-", "2", " ", "m">>
             => (key.ok /\ key.value = <<Frac(1, 1), Frac(2, 1)>>)

Init == PipeInit /\ KeyIdle /\ QueryIdle

Next == PipeNext

Spec == Init /\ [][Next]_vars

\* every request returns and every sleep ends
FairSpec == Init /\ [][Next]_vars /\ WF_vars(Next)

\* the sort-key functions applied to an attribute string
KeyStart == KeyInit /\ PipeIdle /\ QueryIdle

KeySpec == KeyStart /\ [][KeyNext]_vars

\* the query service answering requests over a loaded (or missing) catalog
QueryStart == QueryInit /\ PipeIdle /\ KeyIdle

QuerySpec == QueryStart /\ [][QueryNext]_vars

====
